---- MODULE Spec2Model ----
(***************************************************************************)
(* Lead scout (src/main.py): Google Places search, per-candidate detail    *)
(* fetch, website check, review sentiment, heuristic lead score, ranking.  *)
(*                                                                         *)
(* Numbers.  Python floats are modelled in exact fixed point:              *)
(*   rating              in tenths      (3.5  -> 35)                       *)
(*   compound sentiment  in hundredths  (0.9  -> 90)                       *)
(*   f_rating            times 50,  f_review_count and f_sent times 200    *)
(*   score_raw           times 20000 (so score_raw*100 is score_raw/200)   *)
(* Optional values (Python None) are sequences: <<>> is None, <<v>> is v.  *)
(***************************************************************************)
EXTENDS Integers, Sequences, FiniteSets, TLC

VARIABLES
    GOOGLE_API_KEY,  \* module global read from the environment
    target_n,        \* --num / target_n
    pc,              \* position of the run
    all_biz,         \* scout_leads: candidates accumulated by the search loop
    next_page,       \* scout_leads: continuation token of the last response
    rows,            \* scout_leads: one row per processed candidate
    df,              \* value returned by scout_leads (<<>> = nothing returned)
    calls,           \* network calls issued: search, details, web
    page_sizes,      \* sizes of the batches the search returned, in order
    search_failed,   \* 0, or the page number whose search call raised
    failed,          \* indices of candidates whose detail fetch raised
    web_fetched,     \* indices of candidates whose website was fetched
    stdout,          \* messages printed by main
    out_csv,         \* TRUE once df.to_csv has written the file
    snippets,        \* scorer harness: review compounds to aggregate
    features,        \* scorer harness: the FeatureBundle
    result           \* scorer harness: value returned by the scorer

vars == <<GOOGLE_API_KEY, target_n, pc, all_biz, next_page, rows, df, calls,
          page_sizes, search_failed, failed, web_fetched, stdout, out_csv,
          snippets, features, result>>

pipeline_vars == <<GOOGLE_API_KEY, target_n, all_biz, next_page, rows, df,
                   calls, page_sizes, search_failed, failed, web_fetched,
                   stdout, out_csv>>

harness_vars == <<snippets, features, result>>

----------------------------------------------------------------------------
(* Python values *)

None == <<>>

Some(v) == <<v>>

\* Python truthiness of an optional number: None, 0 and 0.0 are falsy.
TruthyNum(x) == x # None /\ x[1] # 0

\* Python truthiness of an optional string: None and "" are falsy.
TruthyStr(x) == x # None /\ x[1] # ""

Min(a, b) == IF a < b THEN a ELSE b

Max(a, b) == IF a > b THEN a ELSE b

RECURSIVE Sum(_)
Sum(s) == IF s = <<>> THEN 0 ELSE Head(s) + Sum(Tail(s))

----------------------------------------------------------------------------
(* Bounds and input sets *)

MaxTarget == 3

\* Batch sizes one search response can carry.
BatchSizes == {0, 1, 2}

\* Summary fields of a search result: rating (tenths) and user_ratings_total.
Summaries == { [rating |-> None,     user_ratings_total |-> 0],
               [rating |-> Some(42), user_ratings_total |-> 200] }

Tokens == {None, Some("tok")}

\* Detail responses: website and the compound scores of the review texts.
DetailResponses == { [website |-> None,      reviews |-> <<>>],
                     [website |-> Some("u"), reviews |-> <<-60, 20>>] }

\* What safe_get yields for the website: None, or a page that has or has
\* not a non-empty meta description.
Pages == {None, Some([meta |-> TRUE]), Some([meta |-> FALSE])}

\* Scorer harness inputs.
Ratings == {None, Some(0), Some(1), Some(10), Some(34), Some(35), Some(36), Some(50)}

ReviewCounts == {0, 19, 20, 100, 200, 500}

SnippetLists == { <<>>, <<0>>, <<90>>, <<-100>>, <<100>>, <<49>>, <<50>>, <<-60, 20>> }

MetaFlags == {None, Some(TRUE), Some(FALSE)}

----------------------------------------------------------------------------
(* Scoring *)

\* f"{rating}" of a float with one decimal
FmtRating(r) == ToString(r \div 10) \o "." \o ToString(r % 10)

\* Variant: an unknown rating defaults to 0.0 (worst case) instead of 5.0.
rating_of_default_zero(f) == IF TruthyNum(f.rating) THEN f.rating[1] ELSE 0

\* features.get("rating") or 5.0
rating_of(f) == IF TruthyNum(f.rating) THEN f.rating[1] ELSE 50

review_count_of(f) == f.review_count

f_has_website(f) == IF f.has_website THEN 1 ELSE 0

\* f_rating * 50
f_rating(f) == 50 - rating_of(f)

\* f_review_count * 200
f_review_count(f) == 200 - Min(review_count_of(f), 200)

\* Variant: "if compound" in place of "if compound is not None", so that a
\* compound of 0.0 is taken for unknown.
f_sent_truthy(f) ==
    IF TruthyNum(f.avg_review_sentiment) THEN 100 - f.avg_review_sentiment[1] ELSE 0

\* Variant: the polarity is not inverted, (compound + 1) / 2.
f_sent_flipped(f) ==
    IF f.avg_review_sentiment # None THEN 100 + f.avg_review_sentiment[1] ELSE 0

\* f_sent * 200
f_sent(f) ==
    IF f.avg_review_sentiment # None THEN 100 - f.avg_review_sentiment[1] ELSE 0

f_missing_meta(f) == IF f.has_meta_desc = Some(FALSE) THEN 1 ELSE 0

\* weights in percent
w == [missing_website |-> 25, rating |-> 20, review_count |-> 15,
      sentiment |-> 25, missing_meta |-> 15]

\* score_raw * 20000
score_raw(f) ==
      w.missing_website * 200 * (1 - f_has_website(f))
    + w.rating * 4 * f_rating(f)
    + w.review_count * f_review_count(f)
    + w.sentiment * f_sent(f)
    + w.missing_meta * 200 * f_missing_meta(f)

\* int(round(score_raw * 100)).  score_raw is a binary float, so a value
\* whose exact decimal is a half (x.5) is stored a little below, a little
\* above or exactly at the half: either neighbour can be the result.
\* Everywhere else the float error is far smaller than the distance to the
\* half and the result is the nearest integer.
rounded(raw) ==
    LET q == raw \div 200
        r == raw % 200
    IN  IF r < 100 THEN {q} ELSE IF r > 100 THEN {q + 1} ELSE {q, q + 1}

clamp(score) == Max(0, Min(100, score))

reasons_of(f) ==
       (IF f_has_website(f) = 0 THEN <<"No website found">> ELSE <<>>)
    \o \* f_rating > 0.3: in floats 1 - 3.5/5.0 is 0.30000000000000004, so 3.5 is low
       (IF f_rating(f) >= 15 THEN <<"Low rating: " \o FmtRating(rating_of(f))>> ELSE <<>>)
    \o (IF review_count_of(f) < 20
        THEN <<"Low review count: " \o ToString(review_count_of(f))>> ELSE <<>>)
    \o (IF f_sent(f) > 50 THEN <<"Negative review sentiment">> ELSE <<>>)
    \o (IF f_missing_meta(f) = 1 THEN <<"Missing meta description">> ELSE <<>>)

\* Variant: the review count is not capped at 200 and the score is returned
\* without the final clamp.
compute_ai_lead_score_unclamped(f) ==
    { [score |-> s, reasons |-> reasons_of(f)] :
        s \in rounded(score_raw(f) - w.review_count * f_review_count(f)
                                   + w.review_count * (200 - review_count_of(f))) }

\* The values compute_ai_lead_score can return for a bundle (one, unless
\* score_raw*100 is an exact half).
compute_ai_lead_score(f) ==
    { [score |-> clamp(s), reasons |-> reasons_of(f)] : s \in rounded(score_raw(f)) }

----------------------------------------------------------------------------
(* Sentiment aggregation (scout_leads, lines 146-151) *)

\* sum(compound_scores)/len(compound_scores) if compound_scores else None.
\* The input sets hold only lists whose mean is a whole number of hundredths.
avg_compound(compound_scores) ==
    IF Len(compound_scores) > 0
    THEN Some(Sum(compound_scores) \div Len(compound_scores))
    ELSE None

----------------------------------------------------------------------------
(* Website check *)

NoSignals == [reachable |-> FALSE, has_meta_desc |-> FALSE]

\* extract_website_info, given what safe_get returned for the url.  The
\* contact_email and has_ldjson keys are never read by scout_leads.
extract_website_info(page) ==
    IF page = None THEN NoSignals
    ELSE [reachable |-> TRUE, has_meta_desc |-> page[1].meta]

----------------------------------------------------------------------------
(* One iteration of the candidate loop of scout_leads *)

RECURSIVE Join(_)
\* "; ".join(reasons)
Join(rs) ==
    IF rs = <<>> THEN ""
    ELSE IF Len(rs) = 1 THEN rs[1]
    ELSE rs[1] \o "; " \o Join(Tail(rs))

\* The features dict built from the summary, the details and the website info.
features_of(biz, details, website_info) ==
    [ has_website          |-> TruthyStr(details.website),
      rating               |-> biz.rating,
      review_count         |-> biz.user_ratings_total,
      avg_review_sentiment |-> avg_compound(details.reviews),
      has_meta_desc        |-> Some(website_info.has_meta_desc) ]

\* The rows the iteration can append (one per value the scorer can return).
row_of(biz, details, website_info) ==
    { [ place_id      |-> biz.place_id,
        rating        |-> biz.rating,
        review_count  |-> biz.user_ratings_total,
        website       |-> IF TruthyStr(details.website) THEN details.website[1] ELSE "",
        avg_sentiment |-> avg_compound(details.reviews),
        ai_lead_score |-> r.score,
        reasons       |-> Join(r.reasons) ]
      : r \in compute_ai_lead_score(features_of(biz, details, website_info)) }

\* details = {} : every details.get(...) yields its default
EmptyDetails == [website |-> None, reviews |-> <<>>]

----------------------------------------------------------------------------
(* df = pd.DataFrame(rows).sort_values("ai_lead_score", ascending=False) *)

RECURSIVE orderings(_, _)
\* The orders in which the rows with indices in idx can come out: the next
\* row is any of those with the highest remaining score.
orderings(rs, idx) ==
    IF idx = {} THEN {<<>>}
    ELSE UNION { { <<rs[i]>> \o rest : rest \in orderings(rs, idx \ {i}) } :
                 i \in { j \in idx : \A k \in idx :
                            rs[j].ai_lead_score >= rs[k].ai_lead_score } }

\* Variant: ascending=False left out.
sort_values_ascending(rs) ==
    { [k \in 1..Len(rs) |-> o[Len(rs) + 1 - k]] : o \in orderings(rs, 1..Len(rs)) }

\* sort_values is called without kind=, so the library sorts with its
\* default quicksort, which it documents as not stable: rows of equal score
\* can come out in any relative order.
sort_values(rs) == orderings(rs, 1..Len(rs))

----------------------------------------------------------------------------
(* main *)

ErrorMessage == "ERROR: Set GOOGLE_API_KEY in .env before running"

\* if not GOOGLE_API_KEY
key_missing == ~TruthyStr(GOOGLE_API_KEY)

\* while len(all_biz) < target_n
loop_continues(biz) == Len(biz) < target_n

Init ==
    /\ GOOGLE_API_KEY \in {None, Some(""), Some("key")}
    /\ target_n \in 0..MaxTarget
    /\ pc = "main"
    /\ all_biz = <<>>
    /\ next_page = None
    /\ rows = <<>>
    /\ df = <<>>
    /\ calls = [search |-> 0, details |-> 0, web |-> 0]
    /\ page_sizes = <<>>
    /\ search_failed = 0
    /\ failed = {}
    /\ web_fetched = {}
    /\ stdout = <<>>
    /\ out_csv = FALSE
    /\ snippets = <<>>
    /\ features = None
    /\ result = None

\* Variant: the error is printed but main does not return.
MainNoKey_no_return ==
    /\ pc = "main"
    /\ key_missing
    /\ stdout' = Append(stdout, ErrorMessage)
    /\ pc' = IF loop_continues(<<>>) THEN "search" ELSE "details"
    /\ UNCHANGED <<GOOGLE_API_KEY, target_n, all_biz, next_page, rows, df, calls,
                   page_sizes, search_failed, failed, web_fetched, out_csv>>
    /\ UNCHANGED harness_vars

\* main, credential missing: print the error and return.
MainNoKey ==
    /\ pc = "main"
    /\ key_missing
    /\ stdout' = Append(stdout, ErrorMessage)
    /\ pc' = "exit"
    /\ UNCHANGED <<GOOGLE_API_KEY, target_n, all_biz, next_page, rows, df, calls,
                   page_sizes, search_failed, failed, web_fetched, out_csv>>
    /\ UNCHANGED harness_vars

\* main, credential present: scout_leads starts with all_biz = [] and
\* next_page = None and tests the loop condition.
MainStart ==
    /\ pc = "main"
    /\ ~key_missing
    /\ pc' = IF loop_continues(<<>>) THEN "search" ELSE "details"
    /\ UNCHANGED pipeline_vars
    /\ UNCHANGED harness_vars

\* The response of one google_places_search call: n summaries and a token.
batch_of(n, summaries) ==
    [k \in 1..n |-> [place_id |-> Len(all_biz) + k,
                     rating |-> summaries[k].rating,
                     user_ratings_total |-> summaries[k].user_ratings_total]]

\* Variant: "if not next_page: break" left out.
SearchReturns_ignores_token ==
    /\ pc = "search"
    /\ \E n \in BatchSizes : \E summaries \in [1..n -> Summaries] : \E token \in Tokens :
        LET batch == batch_of(n, summaries)
        IN  /\ calls' = [calls EXCEPT !.search = @ + 1]
            /\ page_sizes' = Append(page_sizes, n)
            /\ next_page' = token
            /\ IF batch = <<>>
               THEN /\ all_biz' = all_biz
                    /\ pc' = "details"
               ELSE /\ all_biz' = all_biz \o batch
                    /\ pc' = IF loop_continues(all_biz \o batch)
                             THEN "search" ELSE "details"
    /\ UNCHANGED <<GOOGLE_API_KEY, target_n, rows, df, search_failed, failed,
                   web_fetched, stdout, out_csv>>
    /\ UNCHANGED harness_vars

\* One loop iteration whose google_places_search call returns (batch, token):
\* break on an empty batch, extend, break on no token, test the loop
\* condition.
SearchReturns ==
    /\ pc = "search"
    /\ \E n \in BatchSizes : \E summaries \in [1..n -> Summaries] : \E token \in Tokens :
        LET batch == batch_of(n, summaries)
        IN  /\ calls' = [calls EXCEPT !.search = @ + 1]
            /\ page_sizes' = Append(page_sizes, n)
            /\ next_page' = token
            /\ IF batch = <<>>
               THEN /\ all_biz' = all_biz
                    /\ pc' = "details"
               ELSE /\ all_biz' = all_biz \o batch
                    /\ pc' = IF TruthyStr(token) /\ loop_continues(all_biz \o batch)
                             THEN "search" ELSE "details"
    /\ UNCHANGED <<GOOGLE_API_KEY, target_n, rows, df, search_failed, failed,
                   web_fetched, stdout, out_csv>>
    /\ UNCHANGED harness_vars

\* Variant: the exception is caught and the loop left, as on an empty batch.
SearchRaises_caught ==
    /\ pc = "search"
    /\ calls' = [calls EXCEPT !.search = @ + 1]
    /\ search_failed' = calls.search + 1
    /\ pc' = "details"
    /\ UNCHANGED <<GOOGLE_API_KEY, target_n, all_biz, next_page, rows, df,
                   page_sizes, failed, web_fetched, stdout, out_csv>>
    /\ UNCHANGED harness_vars

\* One loop iteration whose google_places_search call raises (request error
\* or raise_for_status): nothing in scout_leads or main catches it.
SearchRaises ==
    /\ pc = "search"
    /\ calls' = [calls EXCEPT !.search = @ + 1]
    /\ search_failed' = calls.search + 1
    /\ pc' = "aborted"
    /\ UNCHANGED <<GOOGLE_API_KEY, target_n, all_biz, next_page, rows, df,
                   page_sizes, failed, web_fetched, stdout, out_csv>>
    /\ UNCHANGED harness_vars

\* The rest of one iteration of "for biz in all_biz", from the details on.
\* fetch: whether the website fetch is attempted; page: what it yields.
Iterate(i, details, page) ==
    LET biz == all_biz[i]
        fetch == TruthyStr(details.website)
        website_info == IF fetch THEN extract_website_info(page) ELSE NoSignals
    IN  /\ \E row \in row_of(biz, details, website_info) : rows' = Append(rows, row)
        /\ web_fetched' = IF fetch THEN web_fetched \cup {i} ELSE web_fetched
        /\ calls' = [calls EXCEPT !.details = @ + 1,
                                  !.web = IF fetch THEN @ + 1 ELSE @]

\* Iteration whose google_place_details call returns.
CandidateDetailsOk ==
    /\ pc = "details"
    /\ Len(rows) < Len(all_biz)
    /\ \E details \in DetailResponses : \E page \in Pages :
          Iterate(Len(rows) + 1, details, page)
    /\ UNCHANGED <<GOOGLE_API_KEY, target_n, pc, all_biz, next_page, df,
                   page_sizes, search_failed, failed, stdout, out_csv>>
    /\ UNCHANGED harness_vars

\* Variant: no try/except around google_place_details.
CandidateDetailsRaise_uncaught ==
    /\ pc = "details"
    /\ Len(rows) < Len(all_biz)
    /\ failed' = failed \cup {Len(rows) + 1}
    /\ calls' = [calls EXCEPT !.details = @ + 1]
    /\ pc' = "aborted"
    /\ UNCHANGED <<GOOGLE_API_KEY, target_n, all_biz, next_page, rows, df,
                   page_sizes, search_failed, web_fetched, stdout, out_csv>>
    /\ UNCHANGED harness_vars

\* Iteration whose google_place_details call raises: details = {}.
CandidateDetailsRaise ==
    /\ pc = "details"
    /\ Len(rows) < Len(all_biz)
    /\ failed' = failed \cup {Len(rows) + 1}
    /\ Iterate(Len(rows) + 1, EmptyDetails, None)
    /\ UNCHANGED <<GOOGLE_API_KEY, target_n, pc, all_biz, next_page, df,
                   page_sizes, search_failed, stdout, out_csv>>
    /\ UNCHANGED harness_vars

\* After the loop: build the frame, sort it and return it to main, which
\* prints the preview and writes the file.  A frame built from no rows has
\* no ai_lead_score column: sort_values raises KeyError, which nothing
\* catches.
SortAndOutput ==
    /\ pc = "details"
    /\ Len(rows) = Len(all_biz)
    /\ IF rows = <<>>
       THEN /\ pc' = "aborted"
            /\ UNCHANGED <<df, out_csv, stdout>>
       ELSE /\ df' \in sort_values(rows)
            /\ out_csv' = TRUE
            /\ stdout' = Append(stdout, "Saved results")
            /\ pc' = "done"
    /\ UNCHANGED <<GOOGLE_API_KEY, target_n, all_biz, next_page, rows, calls,
                   page_sizes, search_failed, failed, web_fetched>>
    /\ UNCHANGED harness_vars

Next ==
    \/ MainNoKey
    \/ MainStart
    \/ SearchReturns
    \/ SearchRaises
    \/ CandidateDetailsOk
    \/ CandidateDetailsRaise
    \/ SortAndOutput

Spec == Init /\ [][Next]_vars

----------------------------------------------------------------------------
(* Scorer harness: the sentiment aggregation and compute_ai_lead_score     *)
(* applied to bundles drawn from the input sets.                           *)

ScoreInit ==
    /\ pc = "aggregate"
    /\ snippets \in SnippetLists
    /\ \E hw \in BOOLEAN, r \in Ratings, n \in ReviewCounts, m \in MetaFlags :
          features = [has_website |-> hw, rating |-> r, review_count |-> n,
                      avg_review_sentiment |-> None, has_meta_desc |-> m]
    /\ result = None
    /\ GOOGLE_API_KEY = Some("key")
    /\ target_n = 0
    /\ all_biz = <<>>
    /\ next_page = None
    /\ rows = <<>>
    /\ df = <<>>
    /\ calls = [search |-> 0, details |-> 0, web |-> 0]
    /\ page_sizes = <<>>
    /\ search_failed = 0
    /\ failed = {}
    /\ web_fetched = {}
    /\ stdout = <<>>
    /\ out_csv = FALSE

Aggregate ==
    /\ pc = "aggregate"
    /\ features' = [features EXCEPT !.avg_review_sentiment = avg_compound(snippets)]
    /\ pc' = "score"
    /\ UNCHANGED <<snippets, result>>
    /\ UNCHANGED pipeline_vars

Score ==
    /\ pc = "score"
    /\ \E r \in compute_ai_lead_score(features) : result' = Some(r)
    /\ pc' = "scored"
    /\ UNCHANGED <<snippets, features>>
    /\ UNCHANGED pipeline_vars

ScoreNext == Aggregate \/ Score

ScoreSpec == ScoreInit /\ [][ScoreNext]_vars

----------------------------------------------------------------------------
(* Properties of the scorer, checked under ScoreSpec *)

Scored == pc = "scored"

\* C1: for every valid FeatureBundle the returned score is an integer
\* between 0 and 100.
C1_ScoreInRange == Scored => result[1].score \in 0..100

\* C1 witness: the top of the range is reached, with every signal near its
\* worst (no website, rating 0.1, no reviews).
C1_Witness ==
    /\ Scored
    /\ result[1].score = 100
    /\ features.rating = Some(1)
    /\ features.review_count = 0

\* C6 (as claimed): for known ratings r1 < r2 in 0.0..5.0, 0.0 included, and
\* all other features equal, the score at r1 is at least the score at r2.
C6_RatingMonotone ==
    (Scored /\ features.rating # None) =>
        \A r2 \in Ratings \ {None} :
            r2[1] > features.rating[1] =>
                \A o \in compute_ai_lead_score([features EXCEPT !.rating = r2]) :
                    result[1].score >= o.score

\* C7: an empty review list aggregates to None, not 0; a None sentiment
\* contributes exactly 0 to score_raw; an explicit 0.0 gives f_sent = 0.5 and
\* raises score_raw by 0.25 * 0.5 = 0.125 over the same bundle with None
\* (12 or 13 points once rounded).
C7_UnknownIsNotNeutral ==
    pc \in {"score", "scored"} =>
        /\ snippets = <<>> <=> features.avg_review_sentiment = None
        /\ snippets = <<0>> => features.avg_review_sentiment = Some(0)
        /\ features.avg_review_sentiment = None =>
              LET f0 == [features EXCEPT !.avg_review_sentiment = Some(0)]
              IN  /\ w.sentiment * f_sent(features) = 0
                  /\ f_sent(f0) = 100
                  /\ score_raw(f0) - score_raw(features) = 2500
                  /\ Scored =>
                        \A o \in compute_ai_lead_score(f0) :
                            o.score - result[1].score \in {12, 13}

C7_Witness ==
    /\ Scored
    /\ snippets = <<>>
    /\ features.avg_review_sentiment = None
    /\ features.has_website

Bundle8 == [has_website |-> TRUE, rating |-> Some(50), review_count |-> 500,
            avg_review_sentiment |-> Some(90), has_meta_desc |-> Some(TRUE)]

\* C8 (amended): the bundle has_website=true, rating=5.0, review_count=500,
\* avg_sentiment=0.9, has_meta_desc=true scores 1 (0.25 * 0.05 * 100 = 1.25)
\* with no reasons.
C8_BestCaseScoresOne ==
    (Scored /\ features = Bundle8) => result = Some([score |-> 1, reasons |-> <<>>])

\* C8 (as claimed): that bundle scores 0 with no reasons.
C8_BestCaseScoresZero ==
    (Scored /\ features = Bundle8) => result = Some([score |-> 0, reasons |-> <<>>])

C8_Witness == Scored /\ features = Bundle8 /\ snippets = <<90>>

Bundle9 == [has_website |-> FALSE, rating |-> None, review_count |-> 0,
            avg_review_sentiment |-> None, has_meta_desc |-> None]

Reasons9 == <<"No website found", "Low review count: 0">>

\* C9 (amended): the bundle has_website=false, rating unknown,
\* review_count=0, sentiment unknown, has_meta_desc unknown scores 40
\* (0.25 + 0.15; the unknown rating counts as 5.0 and adds nothing) with
\* reasons "No website found", "Low review count: 0" in that order.
C9_UnknownBundleScores40 ==
    (Scored /\ features = Bundle9) => result = Some([score |-> 40, reasons |-> Reasons9])

\* C9 (as claimed): that bundle scores 60 with those reasons.
C9_UnknownBundleScores60 ==
    (Scored /\ features = Bundle9) => result = Some([score |-> 60, reasons |-> Reasons9])

C9_Witness == Scored /\ features = Bundle9 /\ snippets = <<>> /\ result[1].reasons = Reasons9

----------------------------------------------------------------------------
(* Properties of the pipeline, checked under Spec and FairSpec *)

Terminated == pc \in {"done", "aborted", "exit"}

LastPageSize == IF page_sizes = <<>> THEN 0 ELSE page_sizes[Len(page_sizes)]

\* C2 (amended): when a directory search call raises on page k, the
\* exception leaves scout_leads and main: the run ends there, none of the
\* candidates accumulated from pages 1..k-1 is scored, nothing is returned
\* and no file is written.
C2_SearchFailureAborts ==
    search_failed >= 1 =>
        /\ pc = "aborted"
        /\ search_failed = calls.search
        /\ Len(page_sizes) = search_failed - 1
        /\ rows = <<>>
        /\ df = <<>>
        /\ calls.details = 0
        /\ ~out_csv

\* C2 (as claimed): when the search raises on page k >= 2 the run does not
\* end without a result: the candidates of pages 1..k-1 are scored and
\* returned.
C2_PartialResults ==
    search_failed >= 2 =>
        /\ pc # "aborted"
        /\ Terminated => (pc = "done" /\ Len(df) = Len(all_biz))

C2_Witness ==
    /\ search_failed = 2
    /\ pc = "aborted"
    /\ Len(all_biz) >= 1
    /\ rows = <<>>

\* C3: a detail fetch that raises never aborts the run; the candidate is
\* processed as with an empty detail record (no website, no website fetch,
\* no reviews, so sentiment None), and a run that accumulated N candidates
\* returns N rows.
C3_DetailFailureTolerated ==
    /\ \A i \in failed :
          /\ i <= Len(rows)
          /\ rows[i] \in row_of(all_biz[i], EmptyDetails, NoSignals)
          /\ rows[i].place_id = all_biz[i].place_id
          /\ rows[i].website = ""
          /\ rows[i].avg_sentiment = None
          /\ i \notin web_fetched
    /\ calls.web = Cardinality(web_fetched)
    /\ failed # {} => pc \in {"details", "done"}
    /\ (failed # {} /\ pc = "details") => ENABLED Next
    /\ pc = "done" => Len(df) = Len(all_biz)

C3_Witness ==
    /\ pc = "done"
    /\ Len(all_biz) = 3
    /\ Cardinality(failed) = 1
    /\ Len(df) = 3
    /\ web_fetched # {}

IsReordering(a, b) ==
    /\ Len(a) = Len(b)
    /\ \A i \in 1..Len(b) : Cardinality({k \in 1..Len(a) : a[k] = b[i]}) = 1

Descending(s) == \A k \in 1..(Len(s) - 1) : s[k].ai_lead_score >= s[k + 1].ai_lead_score

FurtherCallRule ==
    calls.search >= 1 =>
        (pc = "search" <=> /\ search_failed = 0
                           /\ LastPageSize > 0
                           /\ TruthyStr(next_page)
                           /\ Len(all_biz) < target_n)

\* Search calls are issued only from the loop, one at a time, and every
\* iteration of the loop issues one.
CallsOnlyWhenDue ==
    /\ calls.search' # calls.search => (pc = "search" /\ calls.search' = calls.search + 1)
    /\ pc = "search" => calls.search' = calls.search + 1

Scenario21 ==
    /\ page_sizes = <<2, 1>>
    /\ ~TruthyStr(next_page)
    /\ target_n >= 3
    /\ search_failed = 0

\* C5: a further search call is issued if and only if fewer than target_n
\* candidates are accumulated and the previous response had a non-empty
\* batch and a token; every iteration issues one call and the number of
\* calls never exceeds target_n, so the loop ends after at most target_n
\* iterations; and with pages of sizes 2 and 1, no token after the second
\* and target_n >= 3, exactly 2 calls are issued and 3 rows returned.
C5_Pagination ==
    /\ [](/\ FurtherCallRule
          /\ calls.search <= target_n
          /\ Scenario21 => /\ calls.search = 2
                           /\ Len(all_biz) = 3
                           /\ pc \in {"details", "done"}
                           /\ pc = "done" => Len(df) = 3)
    /\ [][CallsOnlyWhenDue]_vars

C5_Witness ==
    /\ pc = "done"
    /\ Scenario21
    /\ target_n = 3
    /\ calls.search = 2
    /\ Len(df) = 3

CredentialMissing == GOOGLE_API_KEY = None \/ GOOGLE_API_KEY = Some("")

\* C10: with the credential missing, main prints the error and ends; no
\* search, detail or website call is ever issued and no file is written.
C10_NoKeyNoNetwork ==
    CredentialMissing =>
        /\ pc \in {"main", "exit"}
        /\ calls = [search |-> 0, details |-> 0, web |-> 0]
        /\ ~out_csv
        /\ df = <<>>
        /\ pc = "exit" => stdout = <<ErrorMessage>>

C10_Witness == pc = "exit" /\ GOOGLE_API_KEY = None /\ stdout = <<ErrorMessage>>

====
